---- MODULE Spec2Model ----
(***************************************************************************)
(* Model of the ptrace syscall counter of src/strace/main.go: the          *)
(* supervisor (main), the traced child and the kernel's ptrace stops.      *)
(***************************************************************************)
EXTENDS Integers, Sequences, FiniteSets, TLC

\* ------------------------------------------------------------------ bounds
MaxSyscalls == 3   \* syscalls the tracee may issue in one run
MaxSignals == 1    \* signal-delivery stops the tracee may take in one run

\* --------------------------------------------------------------- registers
\* A uint64 register is four 16-bit limbs, least significant first.
U64(n) == <<n % 65536, n \div 65536, 0, 0>>

\* orig_rax outside a syscall: (unsigned long)-1
MinusOne == <<65535, 65535, 65535, 65535>>

\* 2^32 + 1: a register value whose low 32 bits read 1
HighOne == <<1, 0, 1, 0>>

\* var regs syscall.PtraceRegs: the zero value
ZeroRegs == <<0, 0, 0, 0>>

SYS_write == 1
SYS_execve == 59
SYS_exit_group == 231
SYS_unknown == 1000

\* seccomp.ScmpSyscall(regs.Orig_rax): uint64 -> int32 keeps the low 32 bits
ScmpSyscall(r) == (IF r[2] >= 32768 THEN r[2] - 65536 ELSE r[2]) * 65536 + r[1]

\* ScmpSyscall.GetName with the error dropped: "" for a number not in the table
GetName(n) ==
    CASE n = 0 -> "read"
      [] n = SYS_write -> "write"
      [] n = SYS_execve -> "execve"
      [] n = SYS_exit_group -> "exit_group"
      [] OTHER -> ""

\* regName, _ := seccomp.ScmpSyscall(regs.Orig_rax).GetName()
RegName(r) == GetName(ScmpSyscall(r))

\* syscall.Errno.Error()
ErrorString(e) ==
    CASE e = "ESRCH" -> "no such process"
      [] e = "EIO" -> "input/output error"
      [] e = "EPERM" -> "operation not permitted"
      [] OTHER -> ""

\* errors a ptrace request can return on a live, stopped tracee
ControlErrors == {"EIO", "EPERM"}

\* syscall numbers the tracee puts in rax
IssueNumbers == {U64(SYS_write), U64(SYS_exit_group), U64(SYS_unknown), HighOne}

\* variant: m[k] = 1
IncrementOverwrites(m, k) == (k :> 1) @@ m

\* m[k] += 1 on a Go map
Increment(m, k) ==
    IF k \in DOMAIN m THEN [m EXCEPT ![k] = @ + 1] ELSE m @@ (k :> 1)

\* the empty map
EmptyMap == [k \in {} |-> 0]

RECURSIVE SumOver(_, _)
SumOver(m, ks) ==
    IF ks = {} THEN 0
    ELSE LET k == CHOOSE x \in ks : TRUE IN m[k] + SumOver(m, ks \ {k})

Total(m) == SumOver(m, DOMAIN m)

\* cmd as configured before cmd.Run(): Stdin is never assigned
cmd == [Stdin |-> "nil", Stdout |-> "os.Stdout", Stderr |-> "os.Stderr",
        Ptrace |-> TRUE]

\* os/exec: a nil stream of the Cmd is opened on the null device
ChildFile(f) == IF f = "nil" THEN "/dev/null" ELSE f

\* ------------------------------------------------------------------- state
VARIABLES
    pc,             \* position of main
    executable,     \* whether os.Args[1] can be started
    stage,          \* "enter" / "exit"
    syscallCounter, \* map[string]int
    regs,           \* regs.Orig_rax of the current iteration
    err,            \* result of the last PtraceGetRegs
    resumeErr,      \* result of the last PtraceSyscall (dropped by main)
    exitStatus,     \* -1 while main runs
    message,        \* what log.Fatal or the runtime printed
    output,         \* lines printed after the loop
    tstate,         \* tracee: "unborn" "stopped" "running" "zombie" "reaped"
    stopKind,       \* kind of the tracee's latest stop
    origRax,        \* the tracee's orig_rax
    waitable,       \* the latest stop has not been reported by a wait yet
    issued,         \* syscalls the tracee has entered
    signals,        \* signal-delivery stops taken
    completed,      \* per name, syscalls that reached their syscall-exit stop
    stops,          \* stops processed by the loop
    death,          \* how the tracee ended: "none" "exit" "signal"
    inflightCounted, \* the syscall in flight was tallied at its entry stop
    enterName,      \* regName of the latest stop processed while stage was "enter"
    flags,          \* the sound programs' command-line flags
    s,              \* the Sound / SineWave receiver: length, pos, remaining
    ret,            \* what the latest Read returned
    out             \* the bytes the Read calls have handed out, in order

vars == <<pc, executable, stage, syscallCounter, regs, err, resumeErr,
          exitStatus, message, output, tstate, stopKind, origRax, waitable,
          issued, signals, completed, stops, death, inflightCounted,
          enterName, flags, s, ret, out>>

\* the state of the sound programs
audio == <<flags, s, ret, out>>

supervisor == <<pc, stage, syscallCounter, regs, err, resumeErr, exitStatus,
                message, output, stops, enterName>>

tracee == <<tstate, stopKind, origRax, waitable, issued, signals, completed,
            death>>

\* main before cmd.Run()
MainInit ==
    /\ pc = "launch"
    /\ executable \in BOOLEAN
    /\ stage = "enter"
    /\ syscallCounter = EmptyMap
    /\ regs = ZeroRegs
    /\ err = "nil"
    /\ resumeErr = "nil"
    /\ exitStatus = -1
    /\ message = ""
    /\ output = <<>>
    /\ tstate = "unborn"
    /\ stopKind = "none"
    /\ origRax = ZeroRegs
    /\ waitable = FALSE
    /\ issued = 0
    /\ signals = 0
    /\ completed = EmptyMap
    /\ stops = 0
    /\ death = "none"
    /\ inflightCounted = FALSE
    /\ enterName = ""

\* flag defaults
DefaultFlags == [channelCount |-> 2, bitDepthInBytes |-> 2, sampleRate |-> 48000]

\* no Sound or SineWave has been built
AudioIdle ==
    /\ flags = DefaultFlags
    /\ s = [length |-> 0, pos |-> 0, remaining |-> <<>>]
    /\ ret = [n |-> 0, err |-> "none", from |-> "none"]
    /\ out = <<>>

Init == MainInit /\ AudioIdle

\* -------------------------------------------------------------- supervisor
\* cmd.Run() starts the child and waits for its first stop, the SIGTRAP
\* sent after the execve of a PTRACE_TRACEME child.
LaunchOk ==
    /\ pc = "launch"
    /\ executable
    /\ tstate' = "stopped"
    /\ stopKind' = "exec"
    /\ origRax' = U64(SYS_execve)
    /\ waitable' = FALSE
    /\ stage' = "enter"
    /\ pc' = "getregs"
    /\ UNCHANGED <<executable, syscallCounter, regs, err, resumeErr, exitStatus,
                   message, output, issued, signals, completed, stops, death,
                   inflightCounted,
                   enterName>>
    /\ UNCHANGED audio

\* cmd.Run() fails, its error is dropped and cmd.Process is nil
LaunchFail ==
    /\ pc = "launch"
    /\ ~executable
    /\ pc' = "panic"
    /\ exitStatus' = 2
    /\ message' = "invalid memory address or nil pointer dereference"
    /\ UNCHANGED <<executable, stage, syscallCounter, regs, err, resumeErr,
                   output, tracee, stops, inflightCounted,
                   enterName>>
    /\ UNCHANGED audio

\* what the kernel answers to PTRACE_GETREGS
GetRegsResults == IF tstate = "stopped" THEN {"nil"} \cup ControlErrors ELSE {"ESRCH"}

\* variant: every error of the query ends the loop
PtraceGetRegsBreakOnAnyError ==
    /\ pc = "getregs"
    /\ \E e \in GetRegsResults :
        /\ err' = e
        /\ IF e = "nil"
           THEN /\ regs' = origRax
                /\ stops' = stops + 1
                /\ pc' = "classify"
           ELSE /\ regs' = ZeroRegs
                /\ pc' = "report"
                /\ UNCHANGED stops
    /\ UNCHANGED <<executable, stage, syscallCounter, resumeErr, exitStatus,
                   message, output, tracee, inflightCounted,
                   enterName>>
    /\ UNCHANGED audio

\* variant: the text compared with the error is misspelt
PtraceGetRegsWrongText ==
    /\ pc = "getregs"
    /\ \E e \in GetRegsResults :
        /\ err' = e
        /\ IF e = "nil"
           THEN /\ regs' = origRax
                /\ stops' = stops + 1
                /\ pc' = "classify"
                /\ UNCHANGED <<exitStatus, message>>
           ELSE IF ErrorString(e) = "No such process"
           THEN /\ regs' = ZeroRegs
                /\ pc' = "report"
                /\ UNCHANGED <<exitStatus, message, stops>>
           ELSE /\ regs' = ZeroRegs
                /\ pc' = "fatal"
                /\ exitStatus' = 1
                /\ message' = ErrorString(e)
                /\ UNCHANGED stops
    /\ UNCHANGED <<executable, stage, syscallCounter, resumeErr, output, tracee,
                   inflightCounted,
                   enterName>>
    /\ UNCHANGED audio

PtraceGetRegs ==
    /\ pc = "getregs"
    /\ \E e \in GetRegsResults :
        /\ err' = e
        /\ IF e = "nil"
           THEN /\ regs' = origRax
                /\ stops' = stops + 1
                /\ pc' = "classify"
                /\ UNCHANGED <<exitStatus, message>>
           ELSE IF ErrorString(e) = "no such process"
           THEN /\ regs' = ZeroRegs
                /\ pc' = "report"
                /\ UNCHANGED <<exitStatus, message, stops>>
           ELSE /\ regs' = ZeroRegs
                /\ pc' = "fatal"
                /\ exitStatus' = 1
                /\ message' = ErrorString(e)
                /\ UNCHANGED stops
    /\ UNCHANGED <<executable, stage, syscallCounter, resumeErr, output, tracee,
                   inflightCounted,
                   enterName>>
    /\ UNCHANGED audio

\* variant: the tally is made at every stop
ClassifyCountsEveryStop ==
    /\ pc = "classify"
    /\ stage' = (IF stage = "enter" THEN "exit" ELSE "enter")
    /\ syscallCounter' = Increment(syscallCounter, RegName(regs))
    /\ inflightCounted' = (inflightCounted \/ stopKind = "entry")
    /\ enterName' = (IF stage = "enter" THEN RegName(regs) ELSE enterName)
    /\ pc' = "resume"
    /\ UNCHANGED <<executable, regs, err, resumeErr, exitStatus, message, output,
                   tracee, stops>>
    /\ UNCHANGED audio

\* variant: the tally uses the name kept from the stop labelled "enter"
ClassifyUsesEnterName ==
    /\ pc = "classify"
    /\ IF stage = "enter"
       THEN /\ stage' = "exit"
            /\ enterName' = RegName(regs)
            /\ UNCHANGED <<syscallCounter, inflightCounted>>
       ELSE /\ stage' = "enter"
            /\ syscallCounter' = Increment(syscallCounter, enterName)
            /\ inflightCounted' = (inflightCounted \/ stopKind = "entry")
            /\ UNCHANGED enterName
    /\ pc' = "resume"
    /\ UNCHANGED <<executable, regs, err, resumeErr, exitStatus, message, output,
                   tracee, stops>>
    /\ UNCHANGED audio

Classify ==
    /\ pc = "classify"
    /\ IF stage = "enter"
       THEN /\ stage' = "exit"
            /\ enterName' = RegName(regs)
            /\ UNCHANGED <<syscallCounter, inflightCounted>>
       ELSE /\ stage' = "enter"
            /\ syscallCounter' = Increment(syscallCounter, RegName(regs))
            /\ inflightCounted' = (inflightCounted \/ stopKind = "entry")
            /\ UNCHANGED enterName
    /\ pc' = "resume"
    /\ UNCHANGED <<executable, regs, err, resumeErr, exitStatus, message, output,
                   tracee, stops>>
    /\ UNCHANGED audio

\* what the kernel answers to PTRACE_SYSCALL
ResumeResults == IF tstate = "stopped" THEN {"nil"} \cup ControlErrors ELSE {"ESRCH"}

PtraceSyscall ==
    /\ pc = "resume"
    /\ \E e \in ResumeResults :
        /\ resumeErr' = e
        /\ tstate' = IF e = "nil" THEN "running" ELSE tstate
    /\ pc' = "wait"
    /\ UNCHANGED <<executable, stage, syscallCounter, regs, err, exitStatus,
                   message, output, stopKind, origRax, waitable, issued, signals,
                   completed, stops, death, inflightCounted,
                   enterName>>
    /\ UNCHANGED audio

\* variant: the wait returns at once while the tracee is still running
Wait4NoHang ==
    /\ pc = "wait"
    /\ \/ /\ tstate = "stopped"
          /\ waitable' = FALSE
          /\ UNCHANGED tstate
       \/ /\ tstate = "zombie"
          /\ tstate' = "reaped"
          /\ UNCHANGED waitable
       \/ /\ tstate \in {"reaped", "running"}
          /\ UNCHANGED <<tstate, waitable>>
    /\ pc' = "getregs"
    /\ UNCHANGED <<executable, stage, syscallCounter, regs, err, resumeErr,
                   exitStatus, message, output, stopKind, origRax, issued,
                   signals, completed, stops, death, inflightCounted,
                   enterName>>
    /\ UNCHANGED audio

\* syscall.Wait4(pid, nil, 0, nil): returns on a new stop, reaps a dead
\* child, fails at once when there is no child left
Wait4 ==
    /\ pc = "wait"
    /\ \/ /\ tstate = "stopped"
          /\ waitable
          /\ waitable' = FALSE
          /\ UNCHANGED tstate
       \/ /\ tstate = "zombie"
          /\ tstate' = "reaped"
          /\ UNCHANGED waitable
       \/ /\ tstate = "reaped"
          /\ UNCHANGED <<tstate, waitable>>
    /\ pc' = "getregs"
    /\ UNCHANGED <<executable, stage, syscallCounter, regs, err, resumeErr,
                   exitStatus, message, output, stopKind, origRax, issued,
                   signals, completed, stops, death, inflightCounted,
                   enterName>>
    /\ UNCHANGED audio

PrintDone ==
    /\ pc = "report"
    /\ output' = <<">>>done">>
    /\ pc' = "range"
    /\ UNCHANGED <<executable, stage, syscallCounter, regs, err, resumeErr,
                   exitStatus, message, tracee, stops, inflightCounted,
                   enterName>>
    /\ UNCHANGED audio

\* keys already printed by the range loop
Printed == {output[i][1] : i \in 2..Len(output)}

RangeEntry ==
    /\ pc = "range"
    /\ \E k \in DOMAIN syscallCounter \ Printed :
        output' = Append(output, <<k, syscallCounter[k]>>)
    /\ UNCHANGED <<pc, executable, stage, syscallCounter, regs, err, resumeErr,
                   exitStatus, message, tracee, stops, inflightCounted,
                   enterName>>
    /\ UNCHANGED audio

\* variant: the range loop may stop before every key was printed
RangeDoneEarly ==
    /\ pc = "range"
    /\ pc' = "done"
    /\ exitStatus' = 0
    /\ UNCHANGED <<executable, stage, syscallCounter, regs, err, resumeErr,
                   message, output, tracee, stops, inflightCounted,
                   enterName>>
    /\ UNCHANGED audio

RangeDone ==
    /\ pc = "range"
    /\ DOMAIN syscallCounter \subseteq Printed
    /\ pc' = "done"
    /\ exitStatus' = 0
    /\ UNCHANGED <<executable, stage, syscallCounter, regs, err, resumeErr,
                   message, output, tracee, stops, inflightCounted,
                   enterName>>
    /\ UNCHANGED audio

\* ------------------------------------------------------------------ tracee
Tracing == pc \in {"getregs", "classify", "resume", "wait"}

UserMode == stopKind \in {"exec", "exit", "signal"}

TraceeSyscallEntry ==
    /\ Tracing
    /\ tstate = "running"
    /\ UserMode
    /\ issued < MaxSyscalls
    /\ \E nr \in IssueNumbers : origRax' = nr
    /\ stopKind' = "entry"
    /\ tstate' = "stopped"
    /\ waitable' = TRUE
    /\ issued' = issued + 1
    /\ inflightCounted' = FALSE
    /\ UNCHANGED <<supervisor, executable, signals, completed, death>>
    /\ UNCHANGED audio

TraceeSyscallExit ==
    /\ Tracing
    /\ tstate = "running"
    /\ stopKind = "entry"
    /\ ScmpSyscall(origRax) # SYS_exit_group
    /\ stopKind' = "exit"
    /\ tstate' = "stopped"
    /\ waitable' = TRUE
    /\ completed' = Increment(completed, RegName(origRax))
    /\ UNCHANGED <<supervisor, executable, origRax, issued, signals, death,
                   inflightCounted>>
    /\ UNCHANGED audio

\* exit_group never returns
TraceeExit ==
    /\ Tracing
    /\ tstate = "running"
    /\ stopKind = "entry"
    /\ ScmpSyscall(origRax) = SYS_exit_group
    /\ tstate' = "zombie"
    /\ death' = "exit"
    /\ UNCHANGED <<supervisor, executable, stopKind, origRax, waitable, issued,
                   signals, completed, inflightCounted>>
    /\ UNCHANGED audio

TraceeSignalStop ==
    /\ Tracing
    /\ tstate = "running"
    /\ UserMode
    /\ signals < MaxSignals
    /\ stopKind' = "signal"
    /\ origRax' = MinusOne
    /\ tstate' = "stopped"
    /\ waitable' = TRUE
    /\ signals' = signals + 1
    /\ UNCHANGED <<supervisor, executable, issued, completed, death,
                   inflightCounted>>
    /\ UNCHANGED audio

\* SIGKILL from outside, or a fatal signal
TraceeKilled ==
    /\ Tracing
    /\ tstate \in {"stopped", "running"}
    /\ tstate' = "zombie"
    /\ death' = "signal"
    /\ UNCHANGED <<supervisor, executable, stopKind, origRax, waitable, issued,
                   signals, completed, inflightCounted>>
    /\ UNCHANGED audio

Supervisor ==
    \/ LaunchOk
    \/ LaunchFail
    \/ PtraceGetRegs
    \/ Classify
    \/ PtraceSyscall
    \/ Wait4
    \/ PrintDone
    \/ RangeEntry
    \/ RangeDone

Next ==
    \/ LaunchOk
    \/ LaunchFail
    \/ PtraceGetRegs
    \/ Classify
    \/ PtraceSyscall
    \/ Wait4
    \/ PrintDone
    \/ RangeEntry
    \/ RangeDone
    \/ TraceeSyscallEntry
    \/ TraceeSyscallExit
    \/ TraceeExit
    \/ TraceeSignalStop
    \/ TraceeKilled

Spec == Init /\ [][Next]_vars

\* main runs on its own thread and is never starved
FairSpec == Spec /\ WF_vars(Supervisor)

\* ------------------------------------------------------------------ sound
MaxDuration == 3   \* longest duration of a sound, in milliseconds
MaxBuf == 5        \* longest buffer handed to Read

\* time.Second, with durations counted in milliseconds
Second == 1000

\* values of -samplerate
SampleRates == {1000, 1500}

\* flag values the player accepts
Configs == [channelCount : {1, 2}, bitDepthInBytes : {1, 2},
            sampleRate : SampleRates]

Min(a, b) == IF a < b THEN a ELSE b

\* the bytes the sample loops write into a buffer of big bytes when the
\* receiver is at pos: a byte is named by its offset in the wave's byte
\* stream, -1 is a byte no loop writes
Samples(f, pos, big) ==
    LET num == f.bitDepthInBytes * f.channelCount
        p == pos \div num
    IN [j \in 1..big |->
          IF f.bitDepthInBytes \in {1, 2} /\ j - 1 < num * (big \div num)
          THEN num * (p + ((j - 1) \div num)) + ((j - 1) % num)
          ELSE -1]

NewSound(f, duration) ==
    [length |-> (f.channelCount * f.bitDepthInBytes * f.sampleRate * duration)
                    \div Second,
     pos |-> 0,
     remaining |-> <<>>]

\* variant: the length is not rounded down to a multiple of 4
NewSineWaveUnrounded(f, duration) ==
    [length |-> (f.channelCount * f.bitDepthInBytes * f.sampleRate * duration)
                    \div Second,
     pos |-> 0,
     remaining |-> <<>>]

NewSineWave(f, duration) ==
    LET l == (f.channelCount * f.bitDepthInBytes * f.sampleRate * duration)
                 \div Second
    IN [length |-> (l \div 4) * 4, pos |-> 0, remaining |-> <<>>]

\* Sound.Read(buf) with len(buf) = L on the receiver st: the receiver after
\* the call, the result, and the bytes copied into buf
SoundReadCall(f, st, L) ==
    IF Len(st.remaining) > 0
    THEN LET n == Min(L, Len(st.remaining)) IN
         [s |-> [st EXCEPT !.remaining = SubSeq(@, n + 1, Len(@))],
          ret |-> [n |-> n, err |-> "nil", from |-> "remaining"],
          bytes |-> SubSeq(st.remaining, 1, n)]
    ELSE IF st.pos = st.length
    THEN [s |-> st, ret |-> [n |-> 0, err |-> "EOF", from |-> "none"],
          bytes |-> <<>>]
    ELSE LET eof == st.pos + L > st.length
             cut == IF eof THEN st.length - st.pos ELSE L
         IN IF cut < 0
            THEN \* buf[:s.length-s.pos] with a negative bound
                 [s |-> st, ret |-> [n |-> 0, err |-> "panic", from |-> "none"],
                  bytes |-> <<>>]
            ELSE LET padded == (cut % 4) > 0
                     big == IF padded THEN cut + 4 - (cut % 4) ELSE cut
                     buf == Samples(f, st.pos, big)
                     n == IF padded THEN cut ELSE big
                 IN [s |-> [st EXCEPT !.pos = @ + big,
                                      !.remaining = IF padded
                                                    THEN SubSeq(buf, n + 1, big)
                                                    ELSE @],
                     ret |-> [n |-> n, err |-> IF eof THEN "EOF" ELSE "nil",
                              from |-> "samples"],
                     bytes |-> SubSeq(buf, 1, n)]

\* SineWave.Read(buf) with len(buf) = L on the receiver st: the receiver after
\* the call, the result, and the bytes copied into buf
SineWaveReadCall(f, st, L) ==
    IF Len(st.remaining) > 0
    THEN LET n == Min(L, Len(st.remaining)) IN
         [s |-> [st EXCEPT !.remaining = SubSeq(@, n + 1, Len(@))],
          ret |-> [n |-> n, err |-> "nil", from |-> "remaining"],
          bytes |-> SubSeq(st.remaining, 1, n)]
    ELSE IF st.pos = st.length
    THEN [s |-> st, ret |-> [n |-> 0, err |-> "EOF", from |-> "none"],
          bytes |-> <<>>]
    ELSE LET eof == st.pos + L > st.length
             cut == IF eof THEN st.length - st.pos ELSE L
         IN IF cut < 0
            THEN \* buf[:s.length-s.pos] with a negative bound
                 [s |-> st, ret |-> [n |-> 0, err |-> "panic", from |-> "none"],
                  bytes |-> <<>>]
            ELSE LET padded == (cut % 4) > 0
                     big == IF padded THEN cut + 4 - (cut % 4) ELSE cut
                     buf == Samples(f, st.pos, big)
                     n == IF padded THEN cut ELSE big
                 IN [s |-> [st EXCEPT !.pos = @ + big,
                                      !.remaining = IF padded
                                                    THEN SubSeq(buf, n + 1, big)
                                                    ELSE @],
                     ret |-> [n |-> n, err |-> IF eof THEN "EOF" ELSE "nil",
                              from |-> "samples"],
                     bytes |-> SubSeq(buf, 1, n)]

\* the variables of the syscall counter
mainVars == <<pc, executable, stage, syscallCounter, regs, err, resumeErr,
              exitStatus, message, output, tstate, stopKind, origRax, waitable,
              issued, signals, completed, stops, death, inflightCounted,
              enterName>>

NoReturn == [n |-> 0, err |-> "none", from |-> "none"]

SoundInit ==
    /\ MainInit
    /\ executable
    /\ flags \in Configs
    /\ \E duration \in 0..MaxDuration : s = NewSound(flags, duration)
    /\ ret = NoReturn
    /\ out = <<>>

\* the player calls Read with a buffer of any length until the program dies
SoundRead ==
    /\ ret.err # "panic"
    /\ \E L \in 0..MaxBuf :
        LET r == SoundReadCall(flags, s, L) IN
        /\ s' = r.s
        /\ ret' = r.ret
        /\ out' = out \o r.bytes
    /\ UNCHANGED <<mainVars, flags>>

SpecSound == SoundInit /\ [][SoundRead]_vars

SineWaveInit ==
    /\ MainInit
    /\ executable
    /\ flags \in Configs
    /\ \E duration \in 0..MaxDuration : s = NewSineWave(flags, duration)
    /\ ret = NoReturn
    /\ out = <<>>

\* the player calls Read with a non-empty buffer
SineWaveRead ==
    /\ ret.err # "panic"
    /\ \E L \in 1..MaxBuf :
        LET r == SineWaveReadCall(flags, s, L) IN
        /\ s' = r.s
        /\ ret' = r.ret
        /\ out' = out \o r.bytes
    /\ UNCHANGED <<mainVars, flags>>

SpecSineWave == SineWaveInit /\ [][SineWaveRead]_vars

\* ------------------------------------------------------------- vocabulary
LoopTerminated == pc \in {"report", "range", "done"}

\* a register read or a resume request failed on a live tracee
ControlFailure == err \in ControlErrors \/ resumeErr \in ControlErrors

TraceeGone == tstate \in {"zombie", "reaped"}

\* main moves from the classification to the resume request
ClassifyStep == pc = "classify" /\ pc' = "resume"

\* main leaves the register query
GetRegsStep == pc = "getregs" /\ pc' # "getregs"

Count(m, k) == IF k \in DOMAIN m THEN m[k] ELSE 0

\* the message exec.Cmd.Run returns for a path that does not exist
LaunchFailureMessage == "fork/exec: no such file or directory"

\* ------------------------------------------------------------------ claims
\* C1: without a control failure, once the loop has terminated the sum of
\* all counts equals the number of syscalls that reached their exit stop.
C1_SumEqualsCompleted ==
    (LoopTerminated /\ ~ControlFailure) =>
        Total(syscallCounter) = Total(completed)

\* C2: for a tracee that completes syscalls and then exits, the final table
\* holds for every name the number of completed syscalls of that name and
\* no other entry.
C2_TableEqualsCompleted ==
    (LoopTerminated /\ ~ControlFailure /\ death = "exit") =>
        syscallCounter = completed

\* C3: a stop processed while stage is "enter" is a syscall-entry stop and a
\* stop processed while stage is "exit" is a syscall-exit stop, from the
\* first stop on.
C3_LabelsMatchStops ==
    pc = "classify" =>
        /\ (stage = "enter" => stopKind = "entry")
        /\ (stage = "exit" => stopKind = "exit")

\* C4: stage starts as "enter" and flips on every processed stop; the table
\* changes only on a stop processed while stage is "exit", where exactly one
\* entry grows by exactly 1.
C4_CountsOnlyOnExitLabel ==
    /\ []((stops = 0 /\ pc # "launch") => stage = "enter")
    /\ [][ClassifyStep =>
            /\ stage' # stage
            /\ stage' \in {"enter", "exit"}
            /\ (stage = "enter" => syscallCounter' = syscallCounter)
            /\ (stage = "exit" =>
                  /\ DOMAIN syscallCounter \subseteq DOMAIN syscallCounter'
                  /\ \E k \in DOMAIN syscallCounter' :
                        /\ syscallCounter'[k] = Count(syscallCounter, k) + 1
                        /\ \A j \in DOMAIN syscallCounter' \ {k} :
                              /\ j \in DOMAIN syscallCounter
                              /\ syscallCounter'[j] = syscallCounter[j])]_vars
    /\ [][(pc # "launch" /\ ~ClassifyStep) =>
            UNCHANGED <<stage, syscallCounter>>]_vars

C4_Witness ==
    /\ pc = "resume"
    /\ stage = "enter"
    /\ stops >= 2
    /\ Total(syscallCounter) >= 1

\* C5: when the tracee ceases to exist between a syscall's entry stop and
\* its exit stop, the loop terminates without having counted that syscall.
C5_InflightNeverTallied ==
    (LoopTerminated /\ TraceeGone /\ stopKind = "entry") => ~inflightCounted

\* C6: once the tracee has terminated, by exit or by signal, the next
\* register query reports "no such process", the loop breaks with no stage
\* flip or increment from that query on, and the report is emitted: main
\* ends with status 0.
C6_TerminatesAfterTraceeGone ==
    /\ (TraceeGone ~> (pc = "done" /\ exitStatus = 0 /\ Len(output) >= 1))
    /\ [][(GetRegsStep /\ TraceeGone) =>
            /\ ErrorString(err') = "no such process"
            /\ pc' = "report"
            /\ UNCHANGED <<stage, syscallCounter>>]_vars
    /\ [][LoopTerminated =>
            /\ LoopTerminated'
            /\ UNCHANGED <<stage, syscallCounter>>]_vars

C6_Witness ==
    /\ pc = "done"
    /\ tstate = "reaped"
    /\ stops >= 2
    /\ output[1] = ">>>done"

\* C7: after a resume request that failed with an error other than "no such
\* process", the trace is aborted and the failure reported; main does not go
\* on to the wait.
C7_FailedResumeAborts ==
    resumeErr \in ControlErrors =>
        /\ pc = "fatal"
        /\ exitStatus # 0
        /\ message = ErrorString(resumeErr)

\* C8: a register query failing with an error other than "no such process"
\* ends main with a non-zero status and a message, without stage flip,
\* increment or report; only "no such process" leads to the report.
C8_OtherQueryErrorIsFatal ==
    /\ [][GetRegsStep =>
            /\ (err' \notin {"nil", "ESRCH"} =>
                  /\ pc' = "fatal"
                  /\ exitStatus' = 1
                  /\ message' = ErrorString(err')
                  /\ message' # ""
                  /\ UNCHANGED <<stage, syscallCounter, output>>)
            /\ (pc' = "report" => err' = "ESRCH")
            /\ (err' = "ESRCH" => pc' = "report")]_vars
    /\ [][pc = "fatal" => UNCHANGED vars]_vars
    /\ [](pc = "fatal" => (output = <<>> /\ exitStatus = 1))

C8_Witness ==
    /\ pc = "fatal"
    /\ err \in ControlErrors
    /\ stops >= 2
    /\ Total(syscallCounter) >= 1

\* C9: when the executable cannot be started, main reports the launch
\* failure and ends with a non-zero status, without a register query, resume
\* or wait, without a report and without a process left behind.
C9_LaunchFailureReported ==
    (pc # "launch" /\ ~executable) =>
        /\ exitStatus # 0
        /\ exitStatus # -1
        /\ message = LaunchFailureMessage
        /\ stops = 0
        /\ output = <<>>
        /\ tstate = "unborn"

\* C10: a syscall whose number the resolver does not know takes one
\* enter/exit pair of the stage: its entry stop is processed while stage is
\* "enter" and counts nothing, its exit stop is processed while stage is
\* "exit" and adds 1 under the fallback name.
C10_UnknownCountedOnCompletion ==
    [][(ClassifyStep /\ RegName(regs) = "") =>
          /\ (stopKind = "entry" =>
                (stage = "enter" /\ syscallCounter' = syscallCounter))
          /\ (stopKind = "exit" =>
                /\ stage = "exit"
                /\ Count(syscallCounter', "") = Count(syscallCounter, "") + 1)]_vars

C12_StreamsInheritedAndTraced ==
    tstate # "unborn" =>
        /\ ChildFile(cmd.Stdin) = "os.Stdin"
        /\ ChildFile(cmd.Stdout) = "os.Stdout"
        /\ ChildFile(cmd.Stderr) = "os.Stderr"
        /\ cmd.Ptrace
        /\ (stops = 0 => (stopKind = "exec" /\ issued = 0))

\* C13: every iteration runs register query, name resolution and stage
\* flip, resume request, wait, in this order; only the wait can block; the
\* register query and the resume request are never issued while the tracee
\* is running.
C13_IterationOrder ==
    /\ [][(pc' # pc /\ pc # "launch") =>
            /\ (pc = "getregs" => pc' \in {"classify", "report", "fatal"})
            /\ (pc = "classify" => pc' = "resume")
            /\ (pc = "resume" => pc' = "wait")
            /\ (pc = "wait" => pc' = "getregs")]_vars
    /\ [][(GetRegsStep \/ (pc = "resume" /\ pc' = "wait")) =>
            tstate \in {"stopped", "zombie", "reaped"}]_vars
    /\ [](pc \in {"getregs", "classify", "resume"} => ENABLED Supervisor)

C13_Witness ==
    /\ pc = "wait"
    /\ tstate = "running"
    /\ resumeErr = "nil"
    /\ stops >= 2

\* C14: once the loop has terminated the table is never modified; the report
\* emits every (name, count) pair of the table exactly once, with the count
\* the table holds.
C14_ReportReadsFinalTable ==
    /\ [][LoopTerminated => syscallCounter' = syscallCounter]_vars
    /\ [](pc \in {"range", "done"} =>
            /\ output[1] = ">>>done"
            /\ Cardinality(Printed) = Len(output) - 1
            /\ \A i \in 2..Len(output) :
                  /\ output[i][1] \in DOMAIN syscallCounter
                  /\ output[i][2] = syscallCounter[output[i][1]])
    /\ [](pc = "done" => Printed = DOMAIN syscallCounter)

C14_Witness ==
    /\ pc = "done"
    /\ Len(output) = 3
    /\ Cardinality(DOMAIN syscallCounter) = 2
    /\ \E i \in 2..3 : output[i][2] = 2

\* stops whose classification is finished
Processed == IF pc = "classify" THEN stops - 1 ELSE stops

\* C15: stage is "enter" exactly when the number of stops processed so far
\* is even, the sum of the counts is that number divided by two, every key
\* present has a count of at least 1, and no count ever decreases.
C15_StageParityAndSum ==
    /\ [](/\ (stage = "enter" <=> Processed % 2 = 0)
          /\ Total(syscallCounter) = Processed \div 2
          /\ \A k \in DOMAIN syscallCounter : syscallCounter[k] >= 1)
    /\ [][\A k \in DOMAIN syscallCounter :
            /\ k \in DOMAIN syscallCounter'
            /\ syscallCounter'[k] >= syscallCounter[k]]_vars

C15_Witness ==
    /\ pc = "resume"
    /\ signals >= 1
    /\ stops >= 5
    /\ \E k \in DOMAIN syscallCounter : syscallCounter[k] >= 2

\* a Read call that changed the state
ReadStep == <<s, ret, out>>' # <<s, ret, out>>

\* C16: for a Sound of any flags and duration and Read calls with buffers of
\* any length, 0 <= pos <= length holds after every call and Read never
\* panics; once pos has reached the end every further Read returns
\* (0, io.EOF).
C16_SoundPosWithinLength ==
    /\ [](0 <= s.pos /\ s.pos <= s.length /\ ret.err # "panic")
    /\ [][(s.pos = s.length /\ ReadStep) =>
            (ret'.n = 0 /\ ret'.err = "EOF")]_vars

\* C17: for a SineWave and Read calls with non-empty buffers, pos stays a
\* multiple of 4 within 0..length, the bytes held in remaining are handed out
\* in order before new samples are generated, the bytes returned add up to
\* exactly length, and after a Read returned io.EOF no Read returns data.
C17_SineWaveStream ==
    /\ [](/\ s.length % 4 = 0
          /\ s.pos % 4 = 0
          /\ 0 <= s.pos
          /\ s.pos <= s.length
          /\ ret.err # "panic")
    /\ [](/\ \A i \in 1..Len(out) : out[i] = i - 1
          /\ Len(out) + Len(s.remaining) = s.pos
          /\ \A i \in 1..Len(s.remaining) : s.remaining[i] = Len(out) + i - 1)
    /\ [][Len(s.remaining) > 0 =>
            (s'.pos = s.pos /\ ret'.from # "samples")]_vars
    /\ [](ret.err = "EOF" => Len(out) = s.length)
    /\ [][ret.err = "EOF" => (out' = out /\ ret'.n = 0 /\ ret'.err = "EOF")]_vars

C17_Witness ==
    /\ ret.from = "remaining"
    /\ s.remaining = <<>>
    /\ s.pos = s.length
    /\ s.length >= 8
    /\ Len(out) = s.length

====
